---- MODULE Spec2Model ----
(***************************************************************************)
(* Kitesurf Marketplace API (src/main.py, src/schemas.py): the request     *)
(* validation and referential-integrity layer in front of the document     *)
(* store.  Spec runs every handler as one atomic action and records the    *)
(* last HTTP exchange in resp; SpecSearch is the listing search over       *)
(* listings with text fields; SpecConc interleaves the store steps of      *)
(* concurrent handlers.                                                    *)
(***************************************************************************)
EXTENDS Integers, Sequences, FiniteSets, TLC

VARIABLES
    dbIsNone,   \* database.db is None (the store is not configured)
    store,      \* collection name -> (ObjectId -> document)
    nextOid,    \* the ObjectId the store generates next
    resp,       \* the HTTP exchange being answered: request, response, store calls made
    issued,     \* history: the ids POST /api/users has returned
    req         \* SpecConc: worker -> the request it is handling

vars == <<dbIsNone, store, nextOid, resp, issued, req>>

\* ------------------------------------------------------------------ bounds

\* Documents the store may hold over all collections (caps the id counter).
MaxDocs == 3

\* ------------------------------------------------------------- identifiers

\* An identifier string is <<spelling, n>>: "hex" is the 24-digit lowercase
\* hexadecimal spelling of ObjectId n, "HEX" the same digits in uppercase,
\* "not-an-id" a string that is no 24-digit hexadecimal, "none" a JSON null.
Hex(n) == <<"hex", n>>
UpperHex(n) == <<"HEX", n>>
NotAnId == <<"not-an-id", 0>>
NoneId == <<"none", 0>>

\* Identifier strings the requests are drawn from: two ObjectIds the store
\* generates (each is absent before it is generated, and absent from the
\* collections it was not generated for) and a malformed string; a seller_id
\* may also be the uppercase spelling of the first.
IdStrings == {Hex(1), Hex(2), NotAnId}
SellerIdStrings == IdStrings \cup {UpperHex(1)}

\* bson.ObjectId(str) accepts exactly the 24-digit hexadecimal strings, in
\* either case, and raises otherwise; to_object_id turns that into a 400.
IsValidOidLax(s) == TRUE
IsValidOid(s) == s[1] \in {"hex", "HEX"}

ObjectId(s) == s[2]

\* str(ObjectId): the lowercase spelling.
Str(oid) == Hex(oid)

\* ------------------------------------------------------------------ schemas

Collections == {"user", "listing", "message", "review"}

\* User.handle: min_length=2.
HandleMinLength == 2
UserHandles == {"a", "abc"}
UserPayloads == {[handle |-> h] : h \in UserHandles}
ValidUser(payload) == Len(payload.handle) >= HandleMinLength

\* Listing.gear_type: Literal[...]; "sail" is no member of it.
GearType == {"kite", "board"}
GearTypeInputs == {"kite", "sail"}
ValidListing(payload) == payload.gear_type \in GearType

\* Message.body: min_length=1, given by its length.
BodyMinLength == 1
BodyLengths == {0, 1}
ValidMessage(payload) == payload.body >= BodyMinLength

\* Review.rating: ge=1, le=5.
RatingMin == 1
RatingMax == 5
Ratings == {RatingMin - 1, RatingMin, RatingMax, RatingMax + 1}
ValidReviewLax(payload) == payload.rating >= RatingMin - 1 /\ payload.rating <= RatingMax + 1
ValidReview(payload) == payload.rating >= RatingMin /\ payload.rating <= RatingMax

\* Text fields are sequences of characters.
Title == <<"k">>
NoText == <<"none">>

ListingPayloads ==
    {[seller_id |-> s, gear_type |-> g, title |-> Title, brand |-> NoText, model |-> NoText] :
        s \in SellerIdStrings, g \in GearTypeInputs}

MessagePayloads ==
    {[listing_id |-> l, sender_id |-> s, receiver_id |-> r, body |-> b] :
        l \in IdStrings, s \in IdStrings, r \in IdStrings, b \in BodyLengths}

ReviewListingIds == {NoneId, Hex(2), NotAnId}
ReviewPayloads ==
    {[reviewer_id |-> a, reviewee_id |-> b, rating |-> n, listing_id |-> l] :
        a \in IdStrings, b \in IdStrings, n \in Ratings, l \in ReviewListingIds}

\* ------------------------------------------------------------ store access

\* db[collection].find_one({"_id": oid}) is truthy.
Found(collection, oid) == oid \in DOMAIN store[collection]

\* database.create_document with the store configured: insert_one(data) under
\* a generated ObjectId, returned as a string.
create_document(collection_name, data) ==
    [store |-> [store EXCEPT ![collection_name] = @ @@ (nextOid :> data)],
     id |-> Str(nextOid)]

\* The "_id" serialisation of the list endpoints: l["_id"] = str(l["_id"]).
Serialize(collection, oid) == [_id |-> Str(oid)] @@ store[collection][oid]

\* ------------------------------------------------------------------- search

\* A query parameter that was not sent (Optional[str] = None).
NoParam == "None"

\* The characters of the text fields and of q; "." is the regex wildcard.
FoldCase(c) == IF c = "K" THEN "k" ELSE IF c = "O" THEN "o" ELSE c

\* The regular expression `pattern` (letters and "."), under option "i",
\* matches the text from position i on.
MatchAt(pattern, text, i) ==
    \A k \in 1..Len(pattern) :
        /\ i + k - 1 <= Len(text)
        /\ pattern[k] = "." \/ FoldCase(pattern[k]) = FoldCase(text[i + k - 1])

\* {"$regex": pattern, "$options": "i"} on a field: an unanchored match
\* somewhere in a string value; a null field matches nothing.
RegexSearch(pattern, text) ==
    /\ text # NoText
    /\ \E i \in 1..(Len(text) + 1) : MatchAt(pattern, text, i)

\* filter_dict as list_listings builds it: a key is set only for a truthy
\* parameter ("if gear_type:", "if q:").
ListingFilter(gear_type, q) ==
    [gear_type |-> IF gear_type \notin {NoParam, ""} THEN gear_type ELSE NoParam,
     regex |-> IF q \notin {NoText, <<>>} THEN q ELSE NoText]

NoFilter == [gear_type |-> NoParam, regex |-> NoText]

\* The store's reading of filter_dict: equality on gear_type, and "$or" of the
\* regex on title, brand and model; the keys of one filter are ANDed.
Matches(doc, filter_dict) ==
    /\ filter_dict.gear_type # NoParam => doc.gear_type = filter_dict.gear_type
    /\ filter_dict.regex # NoText =>
        \/ RegexSearch(filter_dict.regex, doc.title)
        \/ RegexSearch(filter_dict.regex, doc.brand)
        \/ RegexSearch(filter_dict.regex, doc.model)

\* database.get_documents(collection, filter): the documents the filter keeps.
get_documents(collection, filter_dict) ==
    {Serialize(collection, oid) :
        oid \in {o \in DOMAIN store[collection] : Matches(store[collection][o], filter_dict)}}

GearTypeParams == {NoParam, "", "kite", "board"}
Queries == {NoText, <<>>, <<"k">>, <<"O">>, <<".">>, <<"k", "o">>}

\* Listings with text in all three searched fields, for SpecSearch.
SearchTitles == {<<"k", "o">>, <<"K">>, <<"o">>}
SearchBrands == {NoText, <<"O">>}
SearchModels == {NoText, <<"k">>}
SearchListingPayloads ==
    {[seller_id |-> s, gear_type |-> g, title |-> ti, brand |-> b, model |-> m] :
        s \in {Hex(1), NotAnId}, g \in GearType, ti \in SearchTitles,
        b \in SearchBrands, m \in SearchModels}

\* ----------------------------------------------------------------- handlers

\* What a handler did: the HTTP status and detail, how many identifiers it
\* resolved (to_object_id) and how many find_one lookups it issued.
Outcome(status, detail, resolved, lookups) ==
    [status |-> status, detail |-> detail, resolved |-> resolved, lookups |-> lookups]

Ref(collection, id, detail) == [coll |-> collection, id |-> id, detail |-> detail]

\* The existence checks of a handler, in the order written: each resolves the
\* identifier (400 when malformed), looks it up (404 naming it when absent)
\* and only then goes on to the next.
RECURSIVE CheckFrom(_, _)
CheckFrom(refs, i) ==
    IF i > Len(refs) THEN Outcome(200, "", i - 1, i - 1)
    ELSE IF ~IsValidOid(refs[i].id) THEN Outcome(400, "Invalid id", i, i - 1)
    ELSE IF ~Found(refs[i].coll, ObjectId(refs[i].id)) THEN Outcome(404, refs[i].detail, i, i)
    ELSE CheckFrom(refs, i + 1)

\* One of those checks alone: the status it ends the request with, or 200.
CheckRef(ref) ==
    IF ~IsValidOid(ref.id) THEN 400
    ELSE IF ~Found(ref.coll, ObjectId(ref.id)) THEN 404
    ELSE 200

\* Handler with the existence checks moved ahead of the "db is None" test.
HandlerRefsFirst(refs) ==
    LET r == CheckFrom(refs, 1)
    IN  IF r.status = 200 /\ dbIsNone
        THEN Outcome(500, "Database not configured", r.resolved, r.lookups)
        ELSE r

\* The body of create_listing, send_message and create_review up to the
\* insert: "if db is None" first, then the existence checks.
Handler(refs) ==
    IF dbIsNone THEN Outcome(500, "Database not configured", 0, 0)
    ELSE CheckFrom(refs, 1)

\* FastAPI validates the body against the schema before the handler is
\* called: a 422 with no handler code run.
Request(valid, refs) ==
    IF ~valid THEN Outcome(422, "validation error", 0, 0) ELSE Handler(refs)

SellerRefsAny(payload) == <<>>
SellerRefs(payload) == <<Ref("user", payload.seller_id, "Seller not found")>>

MessageRefsListingFirst(payload) ==
    <<Ref("listing", payload.listing_id, "Listing not found"),
      Ref("user", payload.sender_id, "Sender not found"),
      Ref("user", payload.receiver_id, "Receiver not found")>>
MessageRefsNoListing(payload) ==
    <<Ref("user", payload.sender_id, "Sender not found"),
      Ref("user", payload.receiver_id, "Receiver not found")>>
MessageRefs(payload) ==
    <<Ref("user", payload.sender_id, "Sender not found"),
      Ref("user", payload.receiver_id, "Receiver not found"),
      Ref("listing", payload.listing_id, "Listing not found")>>

ReviewRefsWithListing(payload) ==
    <<Ref("user", payload.reviewer_id, "Reviewer not found"),
      Ref("user", payload.reviewee_id, "Reviewee not found")>>
    \o (IF payload.listing_id = NoneId THEN <<>>
        ELSE <<Ref("listing", payload.listing_id, "Listing not found")>>)
ReviewRefs(payload) ==
    <<Ref("user", payload.reviewer_id, "Reviewer not found"),
      Ref("user", payload.reviewee_id, "Reviewee not found")>>

\* ------------------------------------------------------------------ actions

Response(op, payload, out, id, body, inserts) ==
    [op |-> op, payload |-> payload, status |-> out.status, detail |-> out.detail,
     id |-> id, body |-> body, resolved |-> out.resolved, lookups |-> out.lookups,
     inserts |-> inserts]

NoRequest == [op |-> "none"]

\* Requests handled at the same time.
Workers == {"w1", "w2"}

\* Create with the insert moved ahead of the checks.
CreateBeforeChecks(op, collection, payload, out) ==
    /\ resp = NoRequest
    /\ nextOid <= MaxDocs
    /\ store' = create_document(collection, payload).store
    /\ nextOid' = nextOid + 1
    /\ resp' = Response(op, payload, out, IF out.status = 200 THEN Str(nextOid) ELSE NoneId, {},
                        IF out.status = 200 THEN 1 ELSE 0)
    /\ issued' = IF op = "create_user" /\ out.status = 200 THEN issued \cup {Str(nextOid)} ELSE issued
    /\ UNCHANGED <<dbIsNone, req>>

\* A creation endpoint: on a 200 from the checks, create_document(collection,
\* payload) and {"id": new_id}; otherwise the error and no store write.
Create(op, collection, payload, out) ==
    /\ resp = NoRequest
    /\ out.status = 200 => nextOid <= MaxDocs
    /\ IF out.status = 200
       THEN LET new == create_document(collection, payload)
            IN  /\ store' = new.store
                /\ nextOid' = nextOid + 1
                /\ resp' = Response(op, payload, out, new.id, {}, 1)
                /\ issued' = IF op = "create_user" THEN issued \cup {new.id} ELSE issued
       ELSE /\ UNCHANGED <<store, nextOid, issued>>
            /\ resp' = Response(op, payload, out, NoneId, {}, 0)
    /\ UNCHANGED <<dbIsNone, req>>

\* create_document and get_documents without a store: they raise, and the
\* framework answers 500.
StoreCall(valid) ==
    IF ~valid THEN Outcome(422, "validation error", 0, 0)
    ELSE IF dbIsNone THEN Outcome(500, "Internal Server Error", 0, 0)
    ELSE Outcome(200, "", 0, 0)

UserCollectionWrong == "listing"
UserCollection == "user"

\* The collection each creation endpoint passes to create_document.
OwnCollectionOf(op) ==
    CASE op = "create_user" -> UserCollection
      [] op = "create_listing" -> "listing"
      [] op = "send_message" -> "message"
      [] op = "create_review" -> "review"

\* POST /api/users
create_user ==
    \E payload \in UserPayloads :
        Create("create_user", UserCollection, payload, StoreCall(ValidUser(payload)))

\* GET /api/users
list_users ==
    LET out == StoreCall(TRUE)
        users == IF out.status = 200 THEN get_documents("user", NoFilter) ELSE {}
    IN  /\ resp = NoRequest
        /\ resp' = Response("list_users", NoRequest, out, NoneId, users, 0)
        /\ UNCHANGED <<dbIsNone, store, nextOid, issued, req>>

\* POST /api/listings
create_listing(payloads) ==
    \E payload \in payloads :
        Create("create_listing", "listing", payload,
               Request(ValidListing(payload), SellerRefs(payload)))

\* GET /api/listings
list_listings ==
    \E gear_type \in GearTypeParams, q \in Queries :
        LET out == StoreCall(TRUE)
            listings == IF out.status = 200
                        THEN get_documents("listing", ListingFilter(gear_type, q))
                        ELSE {}
        IN  /\ resp = NoRequest
            /\ resp' = Response("list_listings", [gear_type |-> gear_type, q |-> q],
                                out, NoneId, listings, 0)
            /\ UNCHANGED <<dbIsNone, store, nextOid, issued, req>>

\* POST /api/messages
send_message ==
    \E payload \in MessagePayloads :
        Create("send_message", "message", payload,
               Request(ValidMessage(payload), MessageRefs(payload)))

\* POST /api/reviews
create_review ==
    \E payload \in ReviewPayloads :
        Create("create_review", "review", payload,
               Request(ValidReview(payload), ReviewRefs(payload)))

CreateListing == create_listing(ListingPayloads)
CreateSearchListing == create_listing(SearchListingPayloads)

\* The response goes out to the client; the next request is then taken.
Deliver ==
    /\ resp # NoRequest
    /\ resp' = NoRequest
    /\ UNCHANGED <<dbIsNone, store, nextOid, issued, req>>

\* After import: db is a handle or None for the life of the process, the
\* collections are empty and no request has been answered.
Init ==
    /\ dbIsNone \in BOOLEAN
    /\ store = [c \in Collections |-> <<>>]
    /\ nextOid = 1
    /\ resp = NoRequest
    /\ issued = {}
    /\ req = [w \in Workers |-> NoRequest]

Next ==
    \/ create_user
    \/ list_users
    \/ CreateListing
    \/ list_listings
    \/ send_message
    \/ create_review
    \/ Deliver

Spec == Init /\ [][Next]_vars

\* The listing search over listings with text in title, brand and model.
NextSearch ==
    \/ create_user
    \/ CreateSearchListing
    \/ list_listings
    \/ Deliver

SpecSearch == Init /\ [][NextSearch]_vars

\* ------------------------------------------------- concurrent store steps

\* The requests of SpecConc: the references vary, the other fields are fixed.
ConcListingPayloads == {p \in ListingPayloads : p.seller_id \in IdStrings}
ConcMessagePayloads == {p \in MessagePayloads : p.body = BodyMinLength}
ConcReviewPayloads == {p \in ReviewPayloads : p.rating \in {RatingMin - 1, RatingMax} /\ p.listing_id = NoneId}

\* The existence checks a handler makes before its insert.
RefsOf(op, payload) ==
    CASE op = "create_user" -> <<>>
      [] op = "create_listing" -> SellerRefs(payload)
      [] op = "send_message" -> MessageRefs(payload)
      [] op = "create_review" -> ReviewRefs(payload)

\* A worker takes a request: the body is validated and "db is None" tested,
\* neither of which touches the store; a request that passes both is at its
\* first store call.
Begin(w, op, payload, valid) ==
    /\ req[w] = NoRequest
    /\ Request(valid, <<>>).status = 200
    /\ req' = [req EXCEPT ![w] = [op |-> op, payload |-> payload, pc |-> 1]]
    /\ UNCHANGED <<dbIsNone, store, nextOid, resp, issued>>

BeginUser(w) ==
    \E payload \in UserPayloads : Begin(w, "create_user", payload, ValidUser(payload))

BeginListing(w) ==
    \E payload \in ConcListingPayloads : Begin(w, "create_listing", payload, ValidListing(payload))

BeginMessage(w) ==
    \E payload \in ConcMessagePayloads : Begin(w, "send_message", payload, ValidMessage(payload))

BeginReview(w) ==
    \E payload \in ConcReviewPayloads : Begin(w, "create_review", payload, ValidReview(payload))

\* The next find_one of the request: found, and the handler goes on to its
\* next store call; or the identifier is malformed or absent, and the request
\* ends with the error.
Lookup(w) ==
    /\ req[w] # NoRequest
    /\ req[w].pc <= Len(RefsOf(req[w].op, req[w].payload))
    /\ req' = IF CheckRef(RefsOf(req[w].op, req[w].payload)[req[w].pc]) = 200
              THEN [req EXCEPT ![w].pc = @ + 1]
              ELSE [req EXCEPT ![w] = NoRequest]
    /\ UNCHANGED <<dbIsNone, store, nextOid, resp, issued>>

\* The create_document call that ends a handler whose checks all passed.
Insert(w) ==
    /\ req[w] # NoRequest
    /\ req[w].pc = Len(RefsOf(req[w].op, req[w].payload)) + 1
    /\ nextOid <= MaxDocs
    /\ store' = create_document(OwnCollectionOf(req[w].op), req[w].payload).store
    /\ nextOid' = nextOid + 1
    /\ issued' = IF req[w].op = "create_user" THEN issued \cup {Str(nextOid)} ELSE issued
    /\ req' = [req EXCEPT ![w] = NoRequest]
    /\ UNCHANGED <<dbIsNone, resp>>

NextConc ==
    \E w \in Workers :
        \/ BeginUser(w)
        \/ BeginListing(w)
        \/ BeginMessage(w)
        \/ BeginReview(w)
        \/ Lookup(w)
        \/ Insert(w)

SpecConc == Init /\ [][NextConc]_vars

\* ------------------------------------------------------------------- claims

\* The identifier string s names a document of the collection: some stored
\* ObjectId is spelled s, in lowercase or uppercase hexadecimal.
Identifies(s, collection) ==
    \E o \in DOMAIN store[collection] : s = Hex(o) \/ s = UpperHex(o)

WellFormed(s) == \E o \in 0..(MaxDocs + 1) : s = Hex(o) \/ s = UpperHex(o)

Answered(op) == resp # NoRequest /\ resp.op = op

\* The id the response carries names a document of the collection that holds
\* exactly the payload sent.
Inserted(collection) ==
    /\ resp.inserts = 1
    /\ \E o \in DOMAIN store[collection] :
        resp.id = Hex(o) /\ store[collection][o] = resp.payload

\* C1: with the store configured, a schema-valid POST /api/messages succeeds
\* (one message document inserted, its id returned) if and only if sender_id
\* and receiver_id each identify a stored user and listing_id a stored listing.
C1_MessageCreatedIffAllExist ==
    (Answered("send_message") /\ ~dbIsNone /\ resp.payload.body >= 1) =>
        ((resp.status = 200 /\ Inserted("message"))
            <=> (/\ Identifies(resp.payload.sender_id, "user")
                 /\ Identifies(resp.payload.receiver_id, "user")
                 /\ Identifies(resp.payload.listing_id, "listing")))

C1_Witness ==
    /\ Answered("send_message")
    /\ resp.status = 200
    /\ Identifies(resp.payload.listing_id, "listing")

\* The references of a creation request in the order the claim gives them:
\* <<identifier, collection, the error detail naming it>>.
ClaimedOrder ==
    IF resp.op = "send_message"
    THEN <<<<resp.payload.sender_id, "user", "Sender not found">>,
           <<resp.payload.receiver_id, "user", "Receiver not found">>,
           <<resp.payload.listing_id, "listing", "Listing not found">>>>
    ELSE <<<<resp.payload.reviewer_id, "user", "Reviewer not found">>,
           <<resp.payload.reviewee_id, "user", "Reviewee not found">>>>

\* A schema-valid message or review request answered with the store configured.
CheckedRequest ==
    /\ resp # NoRequest
    /\ resp.op \in {"send_message", "create_review"}
    /\ resp.status # 422
    /\ ~dbIsNone

\* A missing reference: a well-formed identifier that names no document.
Missing(r) == WellFormed(r[1]) /\ ~Identifies(r[1], r[2])

\* C2 as stated: when some reference is missing, the error is the 404 naming
\* the first missing reference in the fixed order, whatever the others are.
C2_FirstMissingIsNamed ==
    CheckedRequest =>
        \A k \in DOMAIN ClaimedOrder :
            (Missing(ClaimedOrder[k]) /\ \A j \in 1..(k - 1) : ~Missing(ClaimedOrder[j]))
                => (resp.status = 404 /\ resp.detail = ClaimedOrder[k][3])

\* C2 amended: the references are checked in the fixed order and the request
\* stops at the first that does not identify a stored document: the 404 naming
\* it when its identifier is well-formed, the 400 "Invalid id" naming none when
\* it is malformed; with every reference identified the request succeeds.
C2_FirstUnresolvedDecides ==
    CheckedRequest =>
        LET refs == ClaimedOrder
            unresolved == {k \in DOMAIN refs : ~Identifies(refs[k][1], refs[k][2])}
        IN  IF unresolved = {} THEN resp.status = 200
            ELSE LET k == CHOOSE i \in unresolved : \A j \in unresolved : i <= j
                 IN  IF WellFormed(refs[k][1])
                     THEN resp.status = 404 /\ resp.detail = refs[k][3]
                     ELSE resp.status = 400 /\ resp.detail = "Invalid id"

\* A request with two missing references, answered by naming the first.
C2_Witness ==
    /\ CheckedRequest
    /\ resp.op = "send_message"
    /\ Identifies(resp.payload.sender_id, "user")
    /\ Missing(ClaimedOrder[2])
    /\ Missing(ClaimedOrder[3])
    /\ resp.detail = "Receiver not found"

\* A schema-valid listing request, answered, whose seller_id identifies no
\* stored user.
UnresolvedSeller ==
    /\ Answered("create_listing")
    /\ resp.payload.gear_type \in {"kite", "board"}
    /\ ~dbIsNone
    /\ ~Identifies(resp.payload.seller_id, "user")

\* C3 as stated: a schema-valid listing whose seller_id does not resolve to a
\* stored user, a malformed seller_id included, fails with the not-found error
\* and no listing is persisted.
C3_UnresolvedSellerNotFound ==
    UnresolvedSeller => (resp.status = 404 /\ resp.inserts = 0)

\* C3 amended: with the store configured such a request fails and persists
\* nothing, with the 404 "Seller not found" when seller_id is well-formed and
\* the 400 "Invalid id" when it is malformed.
C3_UnresolvedSellerRejected ==
    [][(resp = NoRequest /\ UnresolvedSeller')
        => /\ store' = store
           /\ resp'.inserts = 0
           /\ IF WellFormed(resp'.payload.seller_id)
              THEN resp'.status = 404 /\ resp'.detail = "Seller not found"
              ELSE resp'.status = 400 /\ resp'.detail = "Invalid id"]_vars

C3_Witness ==
    /\ UnresolvedSeller
    /\ resp.payload.seller_id = NotAnId
    /\ store["user"] # <<>>

\* The lowercase of a character, for the case-insensitive comparison.
Lowercase(c) == IF c = "K" THEN "k" ELSE IF c = "O" THEN "o" ELSE c

\* q occurs in the text as a case-insensitive substring.
ContainsIgnoringCase(text, q) ==
    /\ text # NoText
    /\ \E i \in 0..(Len(text) - Len(q)) :
        \A k \in 1..Len(q) : Lowercase(text[i + k]) = Lowercase(q[k])

\* The listing satisfies the two conditions of the claim; an empty gear_type
\* counts as not provided.
Wanted(doc, gear_type, q) ==
    /\ gear_type \notin {NoParam, ""} => doc.gear_type = gear_type
    /\ q # NoText =>
        \/ ContainsIgnoringCase(doc.title, q)
        \/ ContainsIgnoringCase(doc.brand, q)
        \/ ContainsIgnoringCase(doc.model, q)

\* C4: GET /api/listings returns exactly the stored listings whose gear_type
\* equals the gear_type parameter, when given, and of which title, brand or
\* model contains q as a case-insensitive substring, when given.
C4_SearchIsSubstringMatch ==
    (Answered("list_listings") /\ resp.status = 200) =>
        resp.body = {Serialize("listing", o) :
                        o \in {x \in DOMAIN store["listing"] :
                                Wanted(store["listing"][x], resp.payload.gear_type, resp.payload.q)}}

\* The same for a q of letters only, which the search does satisfy.
C4_LiteralQueries ==
    (Answered("list_listings") /\ resp.status = 200
        /\ \A k \in DOMAIN resp.payload.q : resp.payload.q[k] # ".") =>
        resp.body = {Serialize("listing", o) :
                        o \in {x \in DOMAIN store["listing"] :
                                Wanted(store["listing"][x], resp.payload.gear_type, resp.payload.q)}}

\* C5: a review whose rating is outside 1..5 gets the validation error with no
\* identifier resolved, no lookup and no insert, whether or not the store is
\* configured or the users exist.
C5_BadRatingNoStoreCall ==
    (Answered("create_review") /\ resp.payload.rating \notin 1..5) =>
        /\ resp.status = 422
        /\ resp.resolved = 0
        /\ resp.lookups = 0
        /\ resp.inserts = 0

C5_Witness ==
    /\ Answered("create_review")
    /\ resp.payload.rating = 6
    /\ ~dbIsNone
    /\ Identifies(resp.payload.reviewer_id, "user")
    /\ Identifies(resp.payload.reviewee_id, "user")
    /\ resp.status = 422

SchemaValid ==
    \/ resp.op = "create_listing" /\ resp.payload.gear_type \in {"kite", "board"}
    \/ resp.op = "send_message" /\ resp.payload.body >= 1
    \/ resp.op = "create_review" /\ resp.payload.rating \in 1..5

\* C6: with the store unconfigured every schema-valid listing, message or
\* review creation fails with the 500 "Database not configured" before any
\* identifier is resolved or looked up, whatever the referenced ids are.
C6_UnconfiguredFailsFirst ==
    (resp # NoRequest /\ dbIsNone /\ SchemaValid) =>
        /\ resp.status = 500
        /\ resp.detail = "Database not configured"
        /\ resp.resolved = 0
        /\ resp.lookups = 0
        /\ resp.inserts = 0

C6_Witness ==
    /\ Answered("send_message")
    /\ dbIsNone
    /\ SchemaValid
    /\ resp.payload.sender_id = NotAnId
    /\ resp.status = 500

\* C7: an id returned by POST /api/users resolves to a stored user in every
\* later state: a schema-valid listing with that seller_id is accepted, and
\* GET /api/users lists a user with that id as its _id.
C7_IssuedUserIdResolves ==
    /\ \A x \in issued : Identifies(x, "user")
    /\ (Answered("create_listing") /\ SchemaValid /\ resp.payload.seller_id \in issued)
        => (resp.status = 200 /\ Inserted("listing"))
    /\ (Answered("list_users") /\ issued # {})
        => (resp.status = 200 /\ \A x \in issued : \E u \in resp.body : u._id = x)

\* A listing accepted for an issued seller id after other documents were
\* stored in between.
C7_Witness ==
    /\ Answered("create_listing")
    /\ resp.payload.seller_id \in issued
    /\ resp.status = 200
    /\ resp.id = Hex(3)

\* C8: with the store configured a schema-valid review is created if and only
\* if reviewer_id and reviewee_id identify stored users, whatever listing_id is.
C8_ReviewIgnoresListingId ==
    (Answered("create_review") /\ SchemaValid /\ ~dbIsNone) =>
        ((resp.status = 200 /\ Inserted("review"))
            <=> (/\ Identifies(resp.payload.reviewer_id, "user")
                 /\ Identifies(resp.payload.reviewee_id, "user")))

C8_Witness ==
    /\ Answered("create_review")
    /\ resp.status = 200
    /\ resp.payload.listing_id = NotAnId

OwnCollection(op) ==
    CASE op = "create_user" -> "user"
      [] op = "create_listing" -> "listing"
      [] op = "send_message" -> "message"
      [] op = "create_review" -> "review"

\* C9: a creation request that fails leaves all four collections unchanged;
\* one that succeeds adds exactly one document, the payload, to its own
\* collection and leaves the other collections and every stored document
\* unchanged.
C9_OneInsertOrNothing ==
    [][(resp = NoRequest /\ resp' # NoRequest /\ resp'.op \notin {"list_users", "list_listings"}) =>
        IF resp'.status # 200
        THEN store' = store
        ELSE LET own == OwnCollection(resp'.op)
             IN  /\ \A c \in Collections \ {own} : store'[c] = store[c]
                 /\ \A o \in DOMAIN store[own] :
                        o \in DOMAIN store'[own] /\ store'[own][o] = store[own][o]
                 /\ \E o \in DOMAIN store'[own] :
                        /\ DOMAIN store'[own] = DOMAIN store[own] \cup {o}
                        /\ o \notin DOMAIN store[own]
                        /\ store'[own][o] = resp'.payload]_vars

\* A failed request answered while documents are stored.
C9_Witness ==
    /\ Answered("send_message")
    /\ resp.status = 404
    /\ store["listing"] # <<>>

\* C10: under any interleaving of the store steps of concurrent requests the
\* store is referentially intact: every stored listing's seller_id identifies
\* a stored user, every stored message's sender_id and receiver_id stored
\* users and its listing_id a stored listing, and every stored review's
\* reviewer_id and reviewee_id stored users.
C10_NoDanglingReference ==
    /\ \A o \in DOMAIN store["listing"] :
        Identifies(store["listing"][o].seller_id, "user")
    /\ \A o \in DOMAIN store["message"] :
        /\ Identifies(store["message"][o].sender_id, "user")
        /\ Identifies(store["message"][o].receiver_id, "user")
        /\ Identifies(store["message"][o].listing_id, "listing")
    /\ \A o \in DOMAIN store["review"] :
        /\ Identifies(store["review"][o].reviewer_id, "user")
        /\ Identifies(store["review"][o].reviewee_id, "user")

\* A message was inserted while the other worker stood between a passed check
\* and its own insert.
C10_Witness ==
    /\ store["message"] # <<>>
    /\ \E w \in Workers : req[w] # NoRequest /\ req[w].pc > 1

====
